---- MODULE Spec2Model ----
(***************************************************************************)
(* Model of the patient-risk assessment CLI: fetchWithRetry (retry,        *)
(* backoff, jitter), the pagination driver run(), and the risk classifier  *)
(* (parseBP, bpScore, tempScore, ageScore and the per-record routing).     *)
(*                                                                         *)
(* JavaScript values are tagged records.  Numbers are fixed-point, in      *)
(* hundredths (the number 99.6 is Num(9960)); strings are sequences of     *)
(* one-character strings.  Delays are in milliseconds.                     *)
(***************************************************************************)
EXTENDS Integers, Sequences, FiniteSets, TLC

\* ------------------------------------------------------------ JS values

NULL == [t |-> "null"]
UNDEFINED == [t |-> "undefined"]
NaN == [t |-> "NaN"]
Str(s) == [t |-> "string", s |-> s]
Num(v) == [t |-> "number", v |-> v]
\* The number n (an integer) as a JS number value.
Whole(n) == Num(n * 100)

\* typeof x
TypeOf(x) ==
  CASE x.t = "string" -> "string"
    [] x.t = "number" -> "number"
    [] x.t = "NaN" -> "number"
    [] x.t = "undefined" -> "undefined"
    [] OTHER -> "object"

\* a < b, a <= b, a >= b, a > b on JS values as the classifier uses them: both
\* operands are numbers, NaN or undefined, and a comparison with NaN or
\* undefined (which converts to NaN) is false.
IsNum(x) == x.t = "number"
Lt(a, b) == IsNum(a) /\ IsNum(b) /\ a.v < b.v
Le(a, b) == IsNum(a) /\ IsNum(b) /\ a.v <= b.v
Ge(a, b) == IsNum(a) /\ IsNum(b) /\ a.v >= b.v
Gt(a, b) == IsNum(a) /\ IsNum(b) /\ a.v > b.v

\* ------------------------------------------------------------ JS strings

Digits == <<"0", "1", "2", "3", "4", "5", "6", "7", "8", "9">>
IsDigit(c) == \E i \in 1..10 : Digits[i] = c
DigitVal(c) == (CHOOSE i \in 1..10 : Digits[i] = c) - 1

RECURSIVE DecVal(_)
\* The value of a non-empty sequence of decimal digits.
DecVal(s) ==
  IF Len(s) = 0 THEN 0
  ELSE 10 * DecVal(SubSeq(s, 1, Len(s) - 1)) + DigitVal(s[Len(s)])

RECURSIVE TrimLeft(_)
TrimLeft(s) == IF Len(s) > 0 /\ s[1] = " " THEN TrimLeft(Tail(s)) ELSE s
RECURSIVE TrimRight(_)
TrimRight(s) ==
  IF Len(s) > 0 /\ s[Len(s)] = " " THEN TrimRight(SubSeq(s, 1, Len(s) - 1)) ELSE s

\* Number(s) for a string s over digits, "/", " " and letters: surrounding
\* white space is dropped, the empty string is 0, a run of digits is its
\* decimal value, anything else is NaN.
NumberOfTrimmed(u) ==
  IF Len(u) = 0 THEN Whole(0)
  ELSE IF \A i \in 1..Len(u) : IsDigit(u[i]) THEN Whole(DecVal(u))
  ELSE NaN
ToNumber(s) == NumberOfTrimmed(TrimRight(TrimLeft(s)))

RECURSIVE SplitSlash(_)
\* s.split("/"): the pieces between the slashes; always at least one piece.
SplitSlash(s) ==
  IF \A i \in 1..Len(s) : s[i] # "/" THEN <<s>>
  ELSE LET k == CHOOSE i \in 1..Len(s) :
                  s[i] = "/" /\ \A j \in 1..(i - 1) : s[j] # "/"
       IN <<SubSeq(s, 1, k - 1)>> \o SplitSlash(SubSeq(s, k + 1, Len(s)))

RECURSIVE DecStr(_)
\* The decimal digits of a natural number.
DecStr(n) == IF n < 10 THEN <<Digits[n + 1]>> ELSE DecStr(n \div 10) \o <<Digits[(n % 10) + 1]>>

\* The string "S/D" for naturals S and D.
BPString(S, D) == DecStr(S) \o <<"/">> \o DecStr(D)

\* ------------------------------------------------------------ classifier

\* Thresholds of the scoring rules, in hundredths.
BpSysElevated == 12000
BpSysElevatedMax == 12900
BpSysStage1 == 13000
BpSysStage1Max == 13900
BpSysStage2 == 14000
BpDiaStage1 == 8000
BpDiaStage1Max == 8900
BpDiaStage2 == 9000
TempNormalMax == 9950
TempLowFever == 9960
TempLowFeverMax == 10090
TempHighFever == 10100
AgeMid == 4000
AgeMidMax == 6500
HighRiskThreshold == 4

\* isInvalid without the empty-string test.
isInvalid_NoEmpty(value) == value = NULL \/ value = UNDEFINED

isInvalid(value) == value = NULL \/ value = UNDEFINED \/ value = Str(<<>>)

\* A score result; the code leaves `invalid` out (undefined, falsy) when the
\* signal is valid.
Score(n) == [score |-> n, invalid |-> FALSE]
InvalidScore == [score |-> 0, invalid |-> TRUE]

\* null, or the pair {sys, dia}.  The destructuring [sys, dia] takes the
\* first two pieces and leaves dia undefined when there is one piece only;
\* Number.isNaN(undefined) is false.
\* if (Number.isNaN(sys) || Number.isNaN(dia)) return null; return { sys, dia }
CheckedPair(sys, dia) ==
  IF sys = NaN \/ dia = NaN THEN NULL ELSE [t |-> "bp", sys |-> sys, dia |-> dia]

\* const [sys, dia] = parts.map(Number)
NumberPair(parts) ==
  CheckedPair(ToNumber(parts[1]),
              IF Len(parts) >= 2 THEN ToNumber(parts[2]) ELSE UNDEFINED)

parseBP(bp) ==
  IF isInvalid(bp) \/ TypeOf(bp) # "string" THEN NULL ELSE NumberPair(SplitSlash(bp.s))

\* The row of bpScore that answers for the parsed pair: the first of the
\* four `if`s whose condition holds, 1..4 in the order of the code, or 5,
\* the closing `return { score: 0 }`, when none does.  Here the elevated
\* row stops one short of its upper end.
BpRow_Gap(sys, dia) ==
  IF Lt(sys, Num(BpSysElevated)) /\ Lt(dia, Num(BpDiaStage1)) THEN 1
  ELSE IF Ge(sys, Num(BpSysElevated)) /\ Lt(sys, Num(BpSysElevatedMax))
          /\ Lt(dia, Num(BpDiaStage1)) THEN 2
  ELSE IF (Ge(sys, Num(BpSysStage1)) /\ Le(sys, Num(BpSysStage1Max)))
          \/ (Ge(dia, Num(BpDiaStage1)) /\ Le(dia, Num(BpDiaStage1Max)))
       THEN 3
  ELSE IF Ge(sys, Num(BpSysStage2)) \/ Ge(dia, Num(BpDiaStage2)) THEN 4
  ELSE 5

BpRow(sys, dia) ==
  IF Lt(sys, Num(BpSysElevated)) /\ Lt(dia, Num(BpDiaStage1)) THEN 1
  ELSE IF Ge(sys, Num(BpSysElevated)) /\ Le(sys, Num(BpSysElevatedMax))
          /\ Lt(dia, Num(BpDiaStage1)) THEN 2
  ELSE IF (Ge(sys, Num(BpSysStage1)) /\ Le(sys, Num(BpSysStage1Max)))
          \/ (Ge(dia, Num(BpDiaStage1)) /\ Le(dia, Num(BpDiaStage1Max)))
       THEN 3
  ELSE IF Ge(sys, Num(BpSysStage2)) \/ Ge(dia, Num(BpDiaStage2)) THEN 4
  ELSE 5

\* What each row returns: scores 0, 1, 2, 3, and 0 for the fallback.
BpRowScore(row) == Score(<<0, 1, 2, 3, 0>>[row])

\* The four rows of bpScore and its fallback, on the parsed pair.
BpRows(sys, dia) == BpRowScore(BpRow(sys, dia))

\* if (!parsed) return { score: 0, invalid: true }
ScoreParsed(parsed) == IF parsed = NULL THEN InvalidScore ELSE BpRows(parsed.sys, parsed.dia)

bpScore(bp) == ScoreParsed(parseBP(bp))

\* tempScore with the low-fever row open at its lower end.
tempScore_OpenLow(temp) ==
  IF isInvalid(temp) \/ TypeOf(temp) # "number" THEN InvalidScore
  ELSE IF Le(temp, Num(TempNormalMax)) THEN Score(0)
  ELSE IF Gt(temp, Num(TempLowFever)) /\ Le(temp, Num(TempLowFeverMax)) THEN Score(1)
  ELSE IF Ge(temp, Num(TempHighFever)) THEN Score(2)
  ELSE Score(0)

tempScore(temp) ==
  IF isInvalid(temp) \/ TypeOf(temp) # "number" THEN InvalidScore
  ELSE IF Le(temp, Num(TempNormalMax)) THEN Score(0)
  ELSE IF Ge(temp, Num(TempLowFever)) /\ Le(temp, Num(TempLowFeverMax)) THEN Score(1)
  ELSE IF Ge(temp, Num(TempHighFever)) THEN Score(2)
  ELSE Score(0)

ageScore(age) ==
  IF isInvalid(age) \/ TypeOf(age) # "number" THEN InvalidScore
  ELSE IF Lt(age, Num(AgeMid)) THEN Score(0)
  ELSE IF Ge(age, Num(AgeMid)) /\ Le(age, Num(AgeMidMax)) THEN Score(1)
  ELSE IF Gt(age, Num(AgeMidMax)) THEN Score(2)
  ELSE Score(0)

\* The three lists and the counter the pagination loop accumulates.
EmptyAcc ==
  [high_risk_patients |-> <<>>, fever_patients |-> <<>>,
   data_quality_issues |-> <<>>, processedCount |-> 0]

\* The routing with a high-risk test that leaves the threshold itself out.
Route_Above(acc, p, bp, temp, age) ==
     [high_risk_patients |->
        IF bp.score + temp.score + age.score > HighRiskThreshold
          THEN Append(acc.high_risk_patients, p.patient_id) ELSE acc.high_risk_patients,
      fever_patients |->
        IF TypeOf(p.temperature) = "number" /\ Ge(p.temperature, Num(TempLowFever))
          THEN Append(acc.fever_patients, p.patient_id) ELSE acc.fever_patients,
      data_quality_issues |->
        IF bp.invalid \/ temp.invalid \/ age.invalid
          THEN Append(acc.data_quality_issues, p.patient_id) ELSE acc.data_quality_issues,
      processedCount |-> acc.processedCount + 1]

\* The routing with the fever test at the high-fever threshold.
Route_FeverHigh(acc, p, bp, temp, age) ==
     [high_risk_patients |->
        IF bp.score + temp.score + age.score >= HighRiskThreshold
          THEN Append(acc.high_risk_patients, p.patient_id) ELSE acc.high_risk_patients,
      fever_patients |->
        IF TypeOf(p.temperature) = "number" /\ Ge(p.temperature, Num(TempHighFever))
          THEN Append(acc.fever_patients, p.patient_id) ELSE acc.fever_patients,
      data_quality_issues |->
        IF bp.invalid \/ temp.invalid \/ age.invalid
          THEN Append(acc.data_quality_issues, p.patient_id) ELSE acc.data_quality_issues,
      processedCount |-> acc.processedCount + 1]

\* The routing of one record into the lists, given its three scores.
Route(acc, p, bp, temp, age) ==
     [high_risk_patients |->
        IF bp.score + temp.score + age.score >= HighRiskThreshold
          THEN Append(acc.high_risk_patients, p.patient_id) ELSE acc.high_risk_patients,
      fever_patients |->
        IF TypeOf(p.temperature) = "number" /\ Ge(p.temperature, Num(TempLowFever))
          THEN Append(acc.fever_patients, p.patient_id) ELSE acc.fever_patients,
      data_quality_issues |->
        IF bp.invalid \/ temp.invalid \/ age.invalid
          THEN Append(acc.data_quality_issues, p.patient_id) ELSE acc.data_quality_issues,
      processedCount |-> acc.processedCount + 1]

\* The body of `for (const p of data)`: one record classified and routed.
ProcessRecord(acc, p) ==
  Route(acc, p, bpScore(p.blood_pressure), tempScore(p.temperature), ageScore(p.age))

RECURSIVE ProcessData(_, _)
\* The whole for-loop over one page's records, in order.
ProcessData(acc, data) ==
  IF Len(data) = 0 THEN acc
  ELSE ProcessData(ProcessRecord(acc, Head(data)), Tail(data))

\* ------------------------------------------------------------ bounds and inputs

\* The retry budgets a direct call of fetchWithRetry is given: 0..MaxRetries.
MaxRetries == 5
\* The largest retry-after hint, in seconds.
MaxHint == 1
\* The pages the server is asked for before the model stops following the run.
MaxPages == 3
\* The largest pagination.total a page declares.
MaxTotal == 2

\* retries = 5: the default budget, the one run() uses.
DefaultRetries == 5
\* Math.random() * 300: the jitter is in [0, JitterBound).
JitterBound == 300
\* Backoff: Math.min(BackoffUnit * 2 ** (attempt - 1), BackoffCap).
BackoffUnit == 1000
BackoffCap == 10000

RetryableStatuses == {429, 500, 502, 503}
\* Non-2xx statuses outside the retryable list.
OtherStatuses == {401, 404}
OkStatuses == {200}
\* res.ok
Ok(status) == status >= 200 /\ status <= 299

\* Jitter values, in ms: both ends of [0, JitterBound) and one inside.
Jitters == {0, JitterBound \div 2, JitterBound - 1}

\* The server's retry-after hint: none, or a number of seconds.
NoHint == [present |-> FALSE]
Hint(h) == [present |-> TRUE, seconds |-> h]
Hints == {NoHint} \cup {Hint(h) : h \in 0..MaxHint}
\* The retry-after header as headers.get returns it: null without the
\* header, else the header's text, the seconds in decimal.
HintHeader(hint) == IF hint.present THEN Str(DecStr(hint.seconds)) ELSE NULL

\* Patient records the server sends in the pagination run: one at high
\* risk with a fever, one with every field malformed, one unremarkable.
PatientHigh ==
  [patient_id |-> "p1", blood_pressure |-> Str(BPString(150, 95)),
   temperature |-> Num(10100), age |-> Whole(70)]
PatientBad ==
  [patient_id |-> "p2", blood_pressure |-> NULL,
   temperature |-> Str(<<"a", "b", "c">>), age |-> UNDEFINED]
PatientPlain ==
  [patient_id |-> "p3", blood_pressure |-> Str(BPString(110, 70)),
   temperature |-> Num(9860), age |-> Whole(30)]

Arr(items) == [t |-> "array", items |-> items]
Pagination(total, hn) == [t |-> "object", total |-> total, hasNext |-> hn]
Json(data, pagination) == [t |-> "json", data |-> data, pagination |-> pagination]

\* pagination.total as the server may send it: a count, null, or left out.
Totals == {NULL, UNDEFINED} \cup {Whole(n) : n \in 0..MaxTotal}
\* The `data` of a page: no record, one record, two records.
DataChoices == {Arr(<<>>), Arr(<<PatientHigh>>), Arr(<<PatientBad, PatientPlain>>)}
PaginationChoices == {Pagination(tot, hn) : tot \in Totals, hn \in BOOLEAN}

\* The 2xx bodies: well-formed envelopes, envelopes without `data`, and
\* envelopes without `pagination`.
Bodies ==
  {Json(d, pg) : d \in DataChoices, pg \in PaginationChoices}
    \cup {Json(UNDEFINED, pg) : pg \in PaginationChoices}
    \cup {Json(d, UNDEFINED) : d \in DataChoices}

\* ------------------------------------------------------------ state

VARIABLES
  pc,                   \* where run() stands: prompt, fetch, done, aborted, capped, none
  page,                 \* run: let page
  processedCount,       \* run: let processedCount
  totalExpected,        \* run: let totalExpected
  hasNext,              \* run: let hasNext
  high_risk_patients,   \* run: the three lists
  fever_patients,
  data_quality_issues,
  warnings,             \* count-mismatch warnings written by console.warn
  payload,              \* the report written by console.log, or NoPayload
  errors,               \* the messages written by console.error
  fpc,                  \* where fetchWithRetry stands: idle, await, sleep, returned, thrown
  url,                  \* the page the current invocation's url asks for (0: none yet)
  retries,              \* fetchWithRetry: retries
  attempt,              \* fetchWithRetry: attempt
  res,                  \* what the current attempt's fetch(url) settled to, or NoRes
  delay,                \* the delay of the sleep in progress
  err,                  \* the error the invocation threw, or NoErr
  nReq,                 \* history: fetch(url) calls of the current invocation
  nSleep,               \* history: sleeps of the current invocation
  onlyRetryable,        \* history: every settled attempt so far gave a retryable status
  inFlight,             \* history: requests issued and not yet settled
  reported,             \* history: pagination.hasNext of each page processed
  firstTotal,           \* history: pagination.total of page 1
  fetched,              \* history: the records of every page processed, in order
  input,                \* the record handed to the classifier on its own, or NoInput
  result                \* what the classifier made of input, or NoResult

runVars ==
  <<pc, page, processedCount, totalExpected, hasNext, high_risk_patients,
    fever_patients, data_quality_issues, warnings, payload, errors>>
fetchVars == <<fpc, url, retries, attempt, res, delay, err, nReq, nSleep, onlyRetryable, inFlight>>
historyVars == <<reported, firstTotal, fetched>>
classifyVars == <<input, result>>
vars == <<runVars, fetchVars, historyVars, classifyVars>>

NoRes == [kind |-> "none"]
\* fetch(url) rejected: no response at all.
Failure == [kind |-> "failure"]
Response(status, hint, body) ==
  [kind |-> "response", status |-> status, hint |-> hint,
   retryAfter |-> HintHeader(hint), body |-> body]
NoBody == [t |-> "none"]

NoErr == [kind |-> "none"]
\* `Failed after ${retries} retries (status ${res.status})`
ExhaustedError(r, status) == [kind |-> "exhausted", retries |-> r, status |-> status]
\* `Non-retryable error: ${res.status}`
NonRetryableError(status) == [kind |-> "nonretryable", status |-> status]
\* What a rejected fetch(url) throws.
TransportError == [kind |-> "transport"]
\* `Patient API error (page ${page}): ${res.status}`
PatientApiError(p, status) == [kind |-> "patientapi", page |-> p, status |-> status]
\* Reading a property of undefined.
TypeError == [kind |-> "typeerror"]

NoPayload == [t |-> "none"]

\* ------------------------------------------------------------ fetchWithRetry

\* Backoff with the cap left out.
Backoff_NoCap(a) == BackoffUnit * 2 ^ (a - 1)

\* Math.min(1000 * 2 ** (attempt - 1), 10000)
Backoff(a) ==
  IF BackoffUnit * 2 ^ (a - 1) < BackoffCap THEN BackoffUnit * 2 ^ (a - 1) ELSE BackoffCap

\* retryAfter ? Number(retryAfter) * 1000 : Math.min(...), in ms.  A header
\* is a string, and every non-empty string is truthy ("0" too).
BaseDelay(retryAfter, a) ==
  IF retryAfter # NULL /\ retryAfter # Str(<<>>)
    THEN (ToNumber(retryAfter.s).v * 1000) \div 100
    ELSE Backoff(a)

\* A call fetchWithRetry(url, options, r) with attempt = 1: fetch(url) is
\* called at once.
Invoke(u, r) ==
  /\ fpc' = "await"
  /\ url' = u
  /\ retries' = r
  /\ attempt' = 1
  /\ res' = NoRes
  /\ delay' = 0
  /\ err' = NoErr
  /\ nReq' = 1
  /\ nSleep' = 0
  /\ onlyRetryable' = TRUE
  /\ inFlight' = inFlight + 1

\* The retry goes on without the sleep having been taken.
Sleep_NotTaken(d) ==
  /\ fpc' = "sleep"
  /\ delay' = d
  /\ nSleep' = nSleep
  /\ err' = NoErr

\* await sleep(d): the invocation is suspended for d ms.
Sleep(d) ==
  /\ fpc' = "sleep"
  /\ delay' = d
  /\ nSleep' = nSleep + 1
  /\ err' = NoErr

\* The invocation's promise rejects with e.
Throw(e) ==
  /\ fpc' = "thrown"
  /\ err' = e
  /\ UNCHANGED <<delay, nSleep>>

\* The catch block retrying once too often.
Catch_OneMore(e) == IF attempt <= retries + 1 THEN Sleep(Backoff(attempt)) ELSE Throw(e)

\* The catch block adding jitter to its backoff.
Catch_Jitter(e) ==
  IF attempt <= retries THEN Sleep(Backoff(attempt) + JitterBound - 1) ELSE Throw(e)

\* The catch block, entered with the error e thrown anywhere in the try
\* block.
Catch(e) == IF attempt <= retries THEN Sleep(Backoff(attempt)) ELSE Throw(e)

\* fetch(url) resolves with a 2xx response: it is returned.
RespondOk ==
  /\ fpc = "await"
  /\ \E status \in OkStatuses, body \in Bodies :
       res' = Response(status, NoHint, body)
  /\ fpc' = "returned"
  /\ inFlight' = inFlight - 1
  /\ UNCHANGED <<url, retries, attempt, delay, err, nReq, nSleep, onlyRetryable>>
  /\ UNCHANGED <<runVars, historyVars, classifyVars>>

\* The retryable status handed back to the caller once the budget is spent.
RespondRetryable_ReturnsLast ==
  /\ fpc = "await"
  /\ \E status \in RetryableStatuses, hint \in Hints, jitter \in Jitters :
       /\ res' = Response(status, hint, NoBody)
       /\ IF attempt > retries
            THEN fpc' = "returned" /\ UNCHANGED <<delay, nSleep, err>>
            ELSE Sleep(BaseDelay(HintHeader(hint), attempt) + jitter)
  /\ inFlight' = inFlight - 1
  /\ UNCHANGED <<url, retries, attempt, nReq, onlyRetryable>>
  /\ UNCHANGED <<runVars, historyVars, classifyVars>>

\* fetch(url) resolves with a status of the retryable list.
RespondRetryable ==
  /\ fpc = "await"
  /\ \E status \in RetryableStatuses, hint \in Hints, jitter \in Jitters :
       /\ res' = Response(status, hint, NoBody)
       /\ IF attempt > retries
            THEN Catch(ExhaustedError(retries, status))
            ELSE Sleep(BaseDelay(HintHeader(hint), attempt) + jitter)
  /\ inFlight' = inFlight - 1
  /\ UNCHANGED <<url, retries, attempt, nReq, onlyRetryable>>
  /\ UNCHANGED <<runVars, historyVars, classifyVars>>

\* fetch(url) resolves with any other non-2xx status: the "Non-retryable
\* error" is thrown inside the try block, so the catch block handles it.
RespondOther ==
  /\ fpc = "await"
  /\ \E status \in OtherStatuses :
       /\ res' = Response(status, NoHint, NoBody)
       /\ Catch(NonRetryableError(status))
  /\ onlyRetryable' = FALSE
  /\ inFlight' = inFlight - 1
  /\ UNCHANGED <<url, retries, attempt, nReq>>
  /\ UNCHANGED <<runVars, historyVars, classifyVars>>

\* fetch(url) rejects (connection error, timeout).
TransportFailure ==
  /\ fpc = "await"
  /\ res' = Failure
  /\ Catch(TransportError)
  /\ onlyRetryable' = FALSE
  /\ inFlight' = inFlight - 1
  /\ UNCHANGED <<url, retries, attempt, nReq>>
  /\ UNCHANGED <<runVars, historyVars, classifyVars>>

\* The retry issued while the previous attempt is still awaited.
SleepDone_Early ==
  /\ fpc = "await"
  /\ attempt' = attempt + 1
  /\ fpc' = "await"
  /\ res' = NoRes
  /\ delay' = 0
  /\ nReq' = nReq + 1
  /\ inFlight' = inFlight + 1
  /\ UNCHANGED <<url, retries, err, nSleep, onlyRetryable>>
  /\ UNCHANGED <<runVars, historyVars, classifyVars>>

\* The sleep's timer fires: fetchWithRetry(url, options, retries, attempt + 1)
\* calls fetch(url) again.
SleepDone ==
  /\ fpc = "sleep"
  /\ attempt' = attempt + 1
  /\ fpc' = "await"
  /\ res' = NoRes
  /\ delay' = 0
  /\ nReq' = nReq + 1
  /\ inFlight' = inFlight + 1
  /\ UNCHANGED <<url, retries, err, nSleep, onlyRetryable>>
  /\ UNCHANGED <<runVars, historyVars, classifyVars>>

\* ------------------------------------------------------------ run

NoTotal == [t |-> "none"]

\* The lists and the counter of run() as one accumulator.
RunAcc ==
  [high_risk_patients |-> high_risk_patients, fever_patients |-> fever_patients,
   data_quality_issues |-> data_quality_issues, processedCount |-> processedCount]

\* One iteration of the while loop from `const { data, pagination } = json`
\* on: what the locals are when it ends, and whether it ended by throwing
\* (reading pagination.total or pagination.hasNext of a missing pagination,
\* or data.length of a missing data).
IterationThrows(te, acc) ==
  [thrown |-> TRUE, totalExpected |-> te, acc |-> acc, hasNext |-> hasNext, page |-> page]

\* The loop's end with the page counter advanced by two.
AfterRecords_SkipPage(pagination, te, acc) ==
  IF pagination = UNDEFINED THEN IterationThrows(te, acc)
  ELSE [thrown |-> FALSE, totalExpected |-> te, acc |-> acc,
        hasNext |-> pagination.hasNext, page |-> page + 2]

\* From the for-loop on, with totalExpected already te and the records
\* already processed into acc.
AfterRecords(pagination, te, acc) ==
  IF pagination = UNDEFINED THEN IterationThrows(te, acc)
  ELSE [thrown |-> FALSE, totalExpected |-> te, acc |-> acc,
        hasNext |-> pagination.hasNext, page |-> page + 1]

\* From `console.log(... data.length)` on.
AfterTotal(data, pagination, te) ==
  IF data = UNDEFINED THEN IterationThrows(te, RunAcc)
  ELSE AfterRecords(pagination, te, ProcessData(RunAcc, data.items))

Iteration(body) ==
  IF totalExpected = NULL /\ body.pagination = UNDEFINED
    THEN IterationThrows(totalExpected, RunAcc)
    ELSE AfterTotal(body.data, body.pagination,
                    IF totalExpected = NULL THEN body.pagination.total ELSE totalExpected)

\* The locals of run() after an iteration.
SetLocals(it) ==
  /\ page' = it.page
  /\ processedCount' = it.acc.processedCount
  /\ totalExpected' = it.totalExpected
  /\ hasNext' = it.hasNext
  /\ high_risk_patients' = it.acc.high_risk_patients
  /\ fever_patients' = it.acc.fever_patients
  /\ data_quality_issues' = it.acc.data_quality_issues

\* History of a page processed to the end of its iteration.
RecordPage(body) ==
  /\ reported' = Append(reported, body.pagination.hasNext)
  /\ firstTotal' = IF page = 1 THEN body.pagination.total ELSE firstTotal
  /\ fetched' = fetched \o body.data.items

\* The invocation of fetchWithRetry is over and its frame is gone; url
\* stays, the page last asked for.
FetchIdle ==
  /\ fpc' = "idle"
  /\ retries' = DefaultRetries
  /\ attempt' = 1
  /\ res' = NoRes
  /\ delay' = 0
  /\ err' = NoErr
  /\ nReq' = 0
  /\ nSleep' = 0
  /\ onlyRetryable' = TRUE
  /\ UNCHANGED <<url, inFlight>>

\* The comparison inverted.
CountMismatch_Inverted(count, total) == total = Whole(count)

\* processedCount !== totalExpected
CountMismatch(count, total) == total # Whole(count)

\* The rl.question callback calls run(apiKey): the locals are set and the
\* first iteration calls fetchWithRetry for page 1.
RunStart ==
  /\ pc = "prompt"
  /\ pc' = "fetch"
  /\ page' = 1
  /\ processedCount' = 0
  /\ totalExpected' = NULL
  /\ hasNext' = TRUE
  /\ high_risk_patients' = <<>>
  /\ fever_patients' = <<>>
  /\ data_quality_issues' = <<>>
  /\ Invoke(1, DefaultRetries)
  /\ UNCHANGED <<warnings, payload, errors, historyVars, classifyVars>>

\* The loop with a limit of two pages: the second page ends the run and
\* the report is written although the page reports hasNext.
RunNextPage_TwoPages ==
  /\ pc = "fetch" /\ fpc = "returned"
  /\ Ok(res.status)
  /\ \E it \in {Iteration(res.body)} :
       /\ ~it.thrown /\ it.hasNext
       /\ it.page <= MaxPages
       /\ SetLocals(it)
       /\ RecordPage(res.body)
       /\ IF it.page <= 2
            THEN Invoke(it.page, DefaultRetries) /\ UNCHANGED <<pc, payload>>
            ELSE /\ pc' = "done"
                 /\ payload' = [high_risk_patients |-> it.acc.high_risk_patients,
                                fever_patients |-> it.acc.fever_patients,
                                data_quality_issues |-> it.acc.data_quality_issues]
                 /\ FetchIdle
  /\ UNCHANGED <<warnings, errors, classifyVars>>

\* fetchWithRetry returned, the page is processed and reports hasNext: the
\* loop goes round and calls fetchWithRetry for the next page.
RunNextPage ==
  /\ pc = "fetch" /\ fpc = "returned"
  /\ Ok(res.status)
  /\ \E it \in {Iteration(res.body)} :
       /\ ~it.thrown /\ it.hasNext
       /\ it.page <= MaxPages
       /\ SetLocals(it)
       /\ RecordPage(res.body)
       /\ Invoke(it.page, DefaultRetries)
  /\ UNCHANGED <<pc, warnings, payload, errors, classifyVars>>

\* As RunNextPage, at the last page the model follows: the run is left
\* about to ask for page MaxPages + 1.
RunCapped ==
  /\ pc = "fetch" /\ fpc = "returned"
  /\ Ok(res.status)
  /\ \E it \in {Iteration(res.body)} :
       /\ ~it.thrown /\ it.hasNext
       /\ it.page > MaxPages
       /\ SetLocals(it)
       /\ RecordPage(res.body)
  /\ pc' = "capped"
  /\ FetchIdle
  /\ UNCHANGED <<warnings, payload, errors, classifyVars>>

\* fetchWithRetry returned, the page is processed and reports no next page:
\* the loop ends, the counts are compared and the payload is written.
RunFinish ==
  /\ pc = "fetch" /\ fpc = "returned"
  /\ Ok(res.status)
  /\ \E it \in {Iteration(res.body)} :
       /\ ~it.thrown /\ ~it.hasNext
       /\ SetLocals(it)
       /\ RecordPage(res.body)
       /\ warnings' = IF CountMismatch(it.acc.processedCount, it.totalExpected)
                        THEN warnings + 1 ELSE warnings
       /\ payload' = [high_risk_patients |-> it.acc.high_risk_patients,
                      fever_patients |-> it.acc.fever_patients,
                      data_quality_issues |-> it.acc.data_quality_issues]
  /\ pc' = "done"
  /\ FetchIdle
  /\ UNCHANGED <<errors, classifyVars>>

\* fetchWithRetry returned and the iteration throws (the response is not ok,
\* or the envelope lacks pagination or data): the callback's catch writes
\* the one error message.
RunMalformed ==
  /\ pc = "fetch" /\ fpc = "returned"
  /\ IF ~Ok(res.status)
       THEN /\ errors' = Append(errors, PatientApiError(page, res.status))
            /\ UNCHANGED <<page, processedCount, totalExpected, hasNext,
                           high_risk_patients, fever_patients, data_quality_issues>>
       ELSE \E it \in {Iteration(res.body)} :
              /\ it.thrown
              /\ SetLocals(it)
              /\ errors' = Append(errors, TypeError)
  /\ pc' = "aborted"
  /\ FetchIdle
  /\ UNCHANGED <<warnings, payload, historyVars, classifyVars>>

\* A failed fetch after which the lists gathered so far are still written.
RunFetchFailed_PartialReport ==
  /\ pc = "fetch" /\ fpc = "thrown"
  /\ errors' = Append(errors, err)
  /\ payload' = [high_risk_patients |-> high_risk_patients,
                 fever_patients |-> fever_patients,
                 data_quality_issues |-> data_quality_issues]
  /\ pc' = "aborted"
  /\ FetchIdle
  /\ UNCHANGED <<page, processedCount, totalExpected, hasNext, high_risk_patients,
                 fever_patients, data_quality_issues, warnings, historyVars,
                 classifyVars>>

\* fetchWithRetry threw: run() rejects and the callback's catch writes the
\* one error message.
RunFetchFailed ==
  /\ pc = "fetch" /\ fpc = "thrown"
  /\ errors' = Append(errors, err)
  /\ pc' = "aborted"
  /\ FetchIdle
  /\ UNCHANGED <<page, processedCount, totalExpected, hasNext, high_risk_patients,
                 fever_patients, data_quality_issues, warnings, payload, historyVars,
                 classifyVars>>

\* fetchWithRetry called on its own, with a retry budget of the caller's.
CallFetch ==
  /\ pc = "none" /\ fpc = "idle" /\ url = 0
  /\ \E r \in 0..MaxRetries : Invoke(1, r)
  /\ UNCHANGED <<runVars, historyVars, classifyVars>>

\* ------------------------------------------------------------ classifier alone

NoInput == [t |-> "none"]
NoResult == [t |-> "none"]

\* The longest blood-pressure string enumerated character by character.
MaxBPLen == 3

RECURSIVE StringsUpTo(_, _)
\* The strings over the characters S of length at most n.
StringsUpTo(S, n) ==
  IF n = 0 THEN {<<>>}
  ELSE {<<>>} \cup {<<c>> \o q : c \in S, q \in StringsUpTo(S, n - 1)}

\* The whole-number readings of the "S/D" inputs: each boundary of the
\* scoring table, its two neighbours, and values well inside each range.
GridSys == {0, 90, 115, 119, 120, 121, 129, 130, 131, 139, 140, 141, 150, 200}
GridDia == {0, 60, 79, 80, 81, 85, 89, 90, 91, 120}

\* blood_pressure values: absent, null, a number, every short string over
\* a digit, the slash, a letter and a blank, and "S/D" over the grid of
\* readings, also with a third part.
BPInputs ==
  {NULL, UNDEFINED, Whole(120)}
    \cup {Str(q) : q \in StringsUpTo({"1", "/", "x", " "}, MaxBPLen)}
    \cup {Str(BPString(S, D)) : S \in GridSys, D \in GridDia}
    \cup {Str(DecStr(120)), Str(DecStr(120) \o <<"/">>), Str(<<"/">> \o DecStr(80)),
          Str(BPString(120, 80) \o <<"/">> \o DecStr(90)),
          Str(<<"a", "b", "c", "/">> \o DecStr(80))}

\* temperature values, numbers in hundredths of a degree.
TempInputs ==
  {NULL, UNDEFINED, Str(<<>>), Str(<<"a", "b", "c">>), Str(<<"9", "9">>)}
    \cup {Num(v) : v \in {9860, 9950, 9955, 9960, 9970, 10090, 10095, 10100, 10250}}

\* age values, numbers in hundredths of a year.
AgeInputs ==
  {NULL, UNDEFINED, Str(<<>>), Str(<<"4", "0">>)}
    \cup {Num(v) : v \in {3000, 3900, 3950, 4000, 6500, 6550, 6600}}

ClassifyInputs ==
  {[patient_id |-> "p0", blood_pressure |-> b, temperature |-> tmp, age |-> a] :
     b \in BPInputs, tmp \in TempInputs, a \in AgeInputs}

\* One pass of the for-loop's body over `input`, with the scores it used.
ClassifyRecord ==
  /\ pc = "classify"
  /\ pc' = "classified"
  /\ result' = [bp |-> bpScore(input.blood_pressure),
                temp |-> tempScore(input.temperature),
                age |-> ageScore(input.age)]
  /\ \E acc \in {ProcessRecord(RunAcc, input)} :
       /\ high_risk_patients' = acc.high_risk_patients
       /\ fever_patients' = acc.fever_patients
       /\ data_quality_issues' = acc.data_quality_issues
       /\ processedCount' = acc.processedCount
  /\ UNCHANGED <<page, totalExpected, hasNext, warnings, payload, errors, fetchVars,
                 historyVars, input>>

\* ------------------------------------------------------------ specifications

InitCommon ==
  /\ page = 1
  /\ processedCount = 0
  /\ totalExpected = NULL
  /\ hasNext = TRUE
  /\ high_risk_patients = <<>>
  /\ fever_patients = <<>>
  /\ data_quality_issues = <<>>
  /\ warnings = 0
  /\ payload = NoPayload
  /\ errors = <<>>
  /\ fpc = "idle"
  /\ url = 0
  /\ retries = DefaultRetries
  /\ attempt = 1
  /\ res = NoRes
  /\ delay = 0
  /\ err = NoErr
  /\ nReq = 0
  /\ nSleep = 0
  /\ onlyRetryable = TRUE
  /\ inFlight = 0
  /\ reported = <<>>
  /\ firstTotal = NoTotal
  /\ fetched = <<>>
  /\ result = NoResult

\* The program at its prompt.
Init == pc = "prompt" /\ input = NoInput /\ InitCommon

Next ==
  \/ RunStart
  \/ RespondOk
  \/ RespondRetryable
  \/ RespondOther
  \/ TransportFailure
  \/ SleepDone
  \/ RunNextPage
  \/ RunCapped
  \/ RunFinish
  \/ RunMalformed
  \/ RunFetchFailed

Spec == Init /\ [][Next]_vars

\* fetchWithRetry alone, called once with any retry budget.
InitFetch == pc = "none" /\ input = NoInput /\ InitCommon

NextFetch ==
  \/ CallFetch
  \/ RespondOk
  \/ RespondRetryable
  \/ RespondOther
  \/ TransportFailure
  \/ SleepDone

\* The program with its progress: a pending fetch settles, a timer fires
\* and the continuation of a settled await runs.
Settle == RespondOk \/ RespondRetryable \/ RespondOther \/ TransportFailure

\* The continuation of run() after `await fetchWithRetry(...)` has
\* settled: whichever of RunNextPage, RunCapped, RunFinish, RunMalformed
\* and RunFetchFailed it is, the invocation's frame is left.
Continue == pc = "fetch" /\ fpc \in {"returned", "thrown"} /\ fpc' \in {"idle", "await"}

SpecLive ==
  /\ Init /\ [][Next]_vars
  /\ WF_vars(RunStart) /\ WF_vars(Settle) /\ WF_vars(SleepDone) /\ WF_fpc(Continue)

SpecFetch == InitFetch /\ [][NextFetch]_vars

\* The classifier alone, on one record with any field values.
InitClassify == pc = "classify" /\ input \in ClassifyInputs /\ InitCommon

NextClassify == ClassifyRecord

SpecClassify == InitClassify /\ [][NextClassify]_vars

\* ------------------------------------------------------------ claims

\* min(1000 * 2^(a-1), 10000), written out: 1000, 2000, 4000, 8000, then
\* 10000 from the fifth attempt on.
ExpectedBackoff(a) ==
  IF a <= 4 THEN <<1000, 2000, 4000, 8000>>[a] ELSE 10000

\* C1: whenever a request returns a non-2xx status outside {429, 500, 502,
\* 503}, the invocation fails at once: it is not sleeping and issues no
\* further request.
C1_NonRetryableFailsAtOnce ==
  (res.kind = "response" /\ ~Ok(res.status) /\ res.status \notin {429, 500, 502, 503})
    => fpc = "thrown"

\* C2: an invocation with budget R issues at most R+1 requests; when all
\* R+1 requests returned retryable statuses it has failed with the
\* retries-exhausted error naming the last status.
C2_RetryBudget ==
  /\ nReq <= retries + 1
  /\ (nReq = retries + 1 /\ onlyRetryable /\ res.kind = "response"
        /\ res.status \in {429, 500, 502, 503})
       => (fpc = "thrown" /\ err = ExhaustedError(retries, res.status))
  /\ (fpc = "thrown" /\ onlyRetryable)
       => (nReq = retries + 1 /\ err.kind = "exhausted" /\ err.status = res.status)

C2_Witness ==
  /\ fpc = "thrown" /\ onlyRetryable /\ retries = 5 /\ nReq = 6
  /\ err.kind = "exhausted" /\ err.status = 500

\* C3: when the first k-1 responses are retryable statuses and the k-th is
\* 2xx, the k-th response is returned after exactly k-1 sleeps, one sleep
\* lying between each two consecutive requests, and no request follows.
C3_SuccessAfterRetries ==
  /\ [](fpc = "await" => nSleep = nReq - 1)
  /\ [](fpc = "sleep" => nSleep = nReq)
  /\ []((fpc = "returned" /\ onlyRetryable)
          => (Ok(res.status) /\ nReq <= retries + 1 /\ nSleep = nReq - 1))
  /\ [][fpc = "returned" => (fpc' # "await" /\ fpc' # "sleep" /\ nReq' = nReq)]_vars

C3_Witness ==
  fpc = "returned" /\ onlyRetryable /\ Ok(res.status) /\ nReq = 3 /\ nSleep = 2

\* C4: the sleep after a retryable status at attempt a is base + jitter,
\* base being hint * 1000 with a hint of hint seconds and min(1000 * 2^(a-1),
\* 10000) without, and 0 <= jitter < 300; without a hint it is below 10300.
C4_RetryDelay ==
  (fpc = "sleep" /\ res.kind = "response" /\ res.status \in {429, 500, 502, 503})
    => /\ attempt <= retries
       /\ \E jitter \in 0..299 :
            delay = jitter + (IF res.hint.present THEN res.hint.seconds * 1000
                              ELSE ExpectedBackoff(attempt))
       /\ ~res.hint.present => delay < 10300

C4_Witness ==
  /\ fpc = "sleep" /\ res.kind = "response" /\ res.status = 503
  /\ ~res.hint.present /\ attempt = 5 /\ delay = 10299

\* C5: a failed transport call at attempt a is retried exactly when a <= R,
\* after a sleep of min(1000 * 2^(a-1), 10000) ms without jitter; at
\* attempt R+1 the failure is the error thrown; there is one attempt counter
\* for every kind of retry.
C5_TransportRetry ==
  /\ fpc \in {"await", "sleep", "returned", "thrown"}
       => (nReq = attempt /\ attempt <= retries + 1)
  /\ (res = Failure /\ attempt <= retries)
       => (fpc = "sleep" /\ delay = ExpectedBackoff(attempt))
  /\ (res = Failure /\ attempt > retries)
       => (fpc = "thrown" /\ err = TransportError)

C5_Witness ==
  /\ res = Failure /\ fpc = "sleep" /\ attempt = 5 /\ delay = 10000 /\ retries = 5

C5_WitnessTerminal ==
  res = Failure /\ fpc = "thrown" /\ attempt = 6 /\ retries = 5

\* C6: pages are asked for in the order 1, 2, 3, ..., the page number going
\* up by one per page processed; page n+1 is asked for only if page n
\* reported hasNext, and nothing is asked for after a page reported none.
C6_PageOrder ==
  /\ [](pc = "fetch"
          => (url = page /\ page = Len(reported) + 1
                /\ \A i \in 1..Len(reported) : reported[i]))
  /\ []((\E i \in 1..Len(reported) : ~reported[i])
          => (pc = "done" /\ fpc = "idle" /\ url = Len(reported)
                /\ ~reported[Len(reported)]))
  /\ [][url' # url
          => (url' = url + 1 /\ Len(reported') = url /\ (url >= 1 => reported'[url]))]_vars
  /\ [][page' # page
          => (page' = page + 1 /\ Len(reported') = Len(reported) + 1)]_vars

C6_Witness ==
  pc = "done" /\ reported = <<TRUE, TRUE, FALSE>> /\ url = 3 /\ page = 4

\* C7: once page 1 has been processed the captured total is page 1's
\* pagination.total, whatever the later pages carry.
C7_TotalFromFirstPage ==
  (Len(reported) >= 1 /\ pc # "aborted") => totalExpected = firstTotal

\* C7, as far as the code keeps it: a first total other than null stays.
C7_NonNullTotalKept ==
  (Len(reported) >= 1 /\ pc # "aborted" /\ firstTotal # NULL) => totalExpected = firstTotal

\* The envelope lacks pagination or the record list.
Malformed(body) == body.pagination = UNDEFINED \/ body.data = UNDEFINED

\* C8: when the loop ends a warning is written exactly when the number of
\* records processed differs from the captured total; either way the run
\* ends normally with the report of every record of every page fetched.
C8_MismatchOnlyWarns ==
  /\ [](pc # "done" => (warnings = 0 /\ payload = NoPayload))
  /\ [](pc = "done"
          => /\ processedCount = Len(fetched)
             /\ (warnings = 1) <=> (totalExpected # Whole(Len(fetched)))
             /\ warnings \in {0, 1}
             /\ errors = <<>>
             /\ \E all \in {ProcessData(EmptyAcc, fetched)} :
                  payload = [high_risk_patients |-> all.high_risk_patients,
                             fever_patients |-> all.fever_patients,
                             data_quality_issues |-> all.data_quality_issues])
  /\ [][(pc = "fetch" /\ fpc = "returned" /\ ~Malformed(res.body)
           /\ ~res.body.pagination.hasNext) => pc' = "done"]_vars

C8_Witness ==
  /\ pc = "done" /\ warnings = 1 /\ Len(fetched) = 3 /\ totalExpected = Whole(2)
  /\ payload.high_risk_patients = <<"p1">> /\ payload.data_quality_issues = <<"p2">>

C8_WitnessMatch ==
  pc = "done" /\ warnings = 0 /\ Len(fetched) = 2 /\ Len(reported) = 2

\* C9: when the fetch of a page throws, or a page's envelope lacks
\* pagination or the record list, the run aborts: nothing more is asked for,
\* no report is written and exactly one error message is.
C9_AbortOnFailure ==
  /\ [](pc = "aborted"
          => (payload = NoPayload /\ Len(errors) = 1 /\ warnings = 0 /\ fpc = "idle"))
  /\ [](pc # "aborted" => errors = <<>>)
  /\ [][(pc = "fetch" /\ fpc = "thrown") => (pc' = "aborted" /\ errors' = <<err>>)]_vars
  /\ [][(pc = "fetch" /\ fpc = "returned" /\ Malformed(res.body))
          => (pc' = "aborted" /\ errors' = <<TypeError>>)]_vars
  /\ [][pc = "aborted" => UNCHANGED <<pc, url, fpc, nReq, payload, errors>>]_vars

C9_Witness ==
  /\ pc = "aborted" /\ errors = <<TypeError>> /\ Len(fetched) >= 1
  /\ high_risk_patients # <<>>

C9_WitnessFetch ==
  /\ pc = "aborted" /\ Len(errors) = 1 /\ errors[1].kind = "exhausted"
  /\ Len(reported) = 1

\* The digits-only strings, the numeric halves of a blood pressure.
IsNumeral(q) == Len(q) > 0 /\ \A i \in 1..Len(q) : IsDigit(q[i])

\* A non-empty string that splits on "/" into exactly two numeric parts.
WellFormedBP(v) ==
  /\ v.t = "string"
  /\ Len(v.s) > 0
  /\ Len(SplitSlash(v.s)) = 2
  /\ \A i \in 1..2 : IsNumeral(SplitSlash(v.s)[i])

\* C10: every blood-pressure value that is not a non-empty string of
\* exactly two numeric parts scores 0 with invalid set and puts the patient
\* in data_quality_issues.
C10_MalformedBPInvalid ==
  (pc = "classified" /\ ~WellFormedBP(input.blood_pressure))
    => (result.bp = InvalidScore /\ data_quality_issues = <<input.patient_id>>)

\* The part of C10 the code keeps: absent, null, empty and non-string
\* values, and strings whose first or second part is not a number, are
\* invalid.
C10_Holds ==
  (pc = "classified"
     /\ \/ input.blood_pressure \in {NULL, UNDEFINED, Str(<<>>)}
        \/ input.blood_pressure.t # "string"
        \/ \E i \in 1..2 : /\ i <= Len(SplitSlash(input.blood_pressure.s))
                           /\ \E j \in 1..Len(SplitSlash(input.blood_pressure.s)[i]) :
                                /\ ~IsDigit(SplitSlash(input.blood_pressure.s)[i][j])
                                /\ SplitSlash(input.blood_pressure.s)[i][j] # " ")
    => (result.bp = InvalidScore /\ data_quality_issues = <<input.patient_id>>)

\* C11: every validly parsed blood pressure with systolic >= 140 or
\* diastolic >= 90 scores 3.
C11_Stage2Scores3 ==
  (pc = "classified" /\ parseBP(input.blood_pressure) # NULL
     /\ \/ Ge(parseBP(input.blood_pressure).sys, Whole(140))
        \/ Ge(parseBP(input.blood_pressure).dia, Whole(90)))
    => result.bp = Score(3)

\* C11, as far as the code keeps it: stage 2 scores 3 unless the other
\* reading lies in the stage-1 range, which is tested first.
C11_Stage2UnlessStage1 ==
  (pc = "classified" /\ parseBP(input.blood_pressure) # NULL
     /\ \/ Ge(parseBP(input.blood_pressure).sys, Whole(140))
        \/ Ge(parseBP(input.blood_pressure).dia, Whole(90))
     /\ ~(Ge(parseBP(input.blood_pressure).sys, Whole(130))
            /\ Le(parseBP(input.blood_pressure).sys, Whole(139)))
     /\ ~(Ge(parseBP(input.blood_pressure).dia, Whole(80))
            /\ Le(parseBP(input.blood_pressure).dia, Whole(89))))
    => result.bp = Score(3)

\* C12: for whole numbers S and D parsed from "S/D", one of the four rows
\* of bpScore answers (never the fallback), the score is that row's, the
\* result is not flagged invalid, and the boundaries score 119/79 -> 0,
\* 120/79 -> 1, 129/79 -> 1, 130/79 -> 2, 139/89 -> 2, 140/79 -> 3,
\* 115/90 -> 3.
C12_BoundaryScores ==
  <<<<119, 79, 0>>, <<120, 79, 1>>, <<129, 79, 1>>, <<130, 79, 2>>,
    <<139, 89, 2>>, <<140, 79, 3>>, <<115, 90, 3>>>>

C12_OneRowApplies ==
  \A S \in GridSys, D \in GridDia :
    (pc = "classified" /\ input.blood_pressure = Str(BPString(S, D))) =>
      /\ parseBP(input.blood_pressure) = CheckedPair(Whole(S), Whole(D))
      /\ BpRow(Whole(S), Whole(D)) \in 1..4
      /\ result.bp = Score(BpRow(Whole(S), Whole(D)) - 1)
      /\ \A i \in 1..Len(C12_BoundaryScores) :
           (S = C12_BoundaryScores[i][1] /\ D = C12_BoundaryScores[i][2])
             => result.bp.score = C12_BoundaryScores[i][3]

\* A reading at the upper end of the elevated row has been scored.
C12_Witness ==
  /\ pc = "classified"
  /\ input.blood_pressure = Str(BPString(129, 79))
  /\ result.bp = Score(1)

\* C13: a numeric temperature scores 0 up to 99.5, 1 from 99.6 to 100.9 and
\* 2 from 101; a numeric age scores 0 below 40, 1 from 40 to 65 and 2 above
\* 65; neither result is flagged invalid.
C13_TempAgeTables ==
  pc = "classified" =>
    /\ TypeOf(input.temperature) = "number" =>
         /\ input.temperature.v <= 9950 => result.temp = Score(0)
         /\ (input.temperature.v >= 9960 /\ input.temperature.v <= 10090)
              => result.temp = Score(1)
         /\ input.temperature.v >= 10100 => result.temp = Score(2)
         /\ ~result.temp.invalid
    /\ TypeOf(input.age) = "number" =>
         /\ input.age.v < 4000 => result.age = Score(0)
         /\ (input.age.v >= 4000 /\ input.age.v <= 6500) => result.age = Score(1)
         /\ input.age.v > 6500 => result.age = Score(2)
         /\ ~result.age.invalid

\* A temperature at the lower end of the low-fever row and an age at the
\* upper end of the middle row have been scored.
C13_Witness ==
  /\ pc = "classified"
  /\ input.temperature = Num(9960) /\ result.temp = Score(1)
  /\ input.age = Whole(65) /\ result.age = Score(1)

\* The sum of the three scores of the record classified.
TotalRisk == result.bp.score + result.temp.score + result.age.score

\* C14: the patient is appended to the high-risk list iff the sum of the
\* three scores is >= 4, and an invalid signal contributes 0 to the sum.
C14_HighRiskIffTotal4 ==
  pc = "classified" =>
    /\ high_risk_patients = IF TotalRisk >= 4 THEN <<input.patient_id>> ELSE <<>>
    /\ result.bp.invalid => result.bp.score = 0
    /\ result.temp.invalid => result.temp.score = 0
    /\ result.age.invalid => result.age.score = 0

\* A record whose total is exactly 4, one signal invalid, is at high risk.
C14_Witness ==
  /\ pc = "classified"
  /\ TotalRisk = 4 /\ result.age.invalid
  /\ high_risk_patients = <<input.patient_id>>

\* A record whose total is 3 is not at high risk.
C14_WitnessThree ==
  /\ pc = "classified"
  /\ TotalRisk = 3
  /\ high_risk_patients = <<>>

\* C15: the patient is appended to the fever list iff the temperature is a
\* number >= 99.6, whatever the other two fields are and whatever the
\* other two lists hold; a missing, null, empty or non-numeric temperature
\* never does it.
C15_FeverIffNumber996 ==
  pc = "classified" =>
    fever_patients =
      IF TypeOf(input.temperature) = "number" /\ input.temperature.v >= 9960
        THEN <<input.patient_id>> ELSE <<>>

\* A temperature of 99.7 with an invalid blood pressure: the patient is in
\* the fever list and in data_quality_issues.
C15_Witness ==
  /\ pc = "classified"
  /\ input.temperature = Num(9970) /\ input.blood_pressure = NULL
  /\ fever_patients = <<input.patient_id>>
  /\ data_quality_issues = <<input.patient_id>>

\* A non-numeric temperature has been processed without a fever entry.
C15_WitnessNotNumber ==
  /\ pc = "classified"
  /\ TypeOf(input.temperature) = "string" /\ Len(input.temperature.s) > 0
  /\ fever_patients = <<>>

\* A field value that is missing, null, empty or of the wrong type.
Unusable(v, type) == v \in {NULL, UNDEFINED, Str(<<>>)} \/ TypeOf(v) # type

\* C16: for missing, null, empty, wrongly typed and numeric field values
\* the classification ends without an error and the record is counted;
\* each unusable field scores 0 with its signal invalid, each numeric field
\* is scored without the flag, and the patient is appended to
\* data_quality_issues iff at least one of the three signals is invalid.
C16_NeverRaises ==
  pc = "classified" =>
    /\ errors = <<>> /\ processedCount = 1 /\ result # NoResult
    /\ Unusable(input.blood_pressure, "string") => result.bp = InvalidScore
    /\ Unusable(input.temperature, "number") => result.temp = InvalidScore
    /\ Unusable(input.age, "number") => result.age = InvalidScore
    /\ WellFormedBP(input.blood_pressure) => ~result.bp.invalid
    /\ ~Unusable(input.temperature, "number") => ~result.temp.invalid
    /\ ~Unusable(input.age, "number") => ~result.age.invalid
    /\ data_quality_issues =
         IF result.bp.invalid \/ result.temp.invalid \/ result.age.invalid
           THEN <<input.patient_id>> ELSE <<>>

\* An empty blood pressure and a missing age with a temperature of 101: the
\* temperature is still scored and the patient has a data-quality issue.
C16_Witness ==
  /\ pc = "classified"
  /\ input.blood_pressure = Str(<<>>) /\ input.age = UNDEFINED
  /\ input.temperature = Num(10100)
  /\ result = [bp |-> InvalidScore, temp |-> Score(2), age |-> InvalidScore]
  /\ data_quality_issues = <<input.patient_id>> /\ processedCount = 1

\* A record of three usable fields has no data-quality issue.
C16_WitnessClean ==
  /\ pc = "classified"
  /\ WellFormedBP(input.blood_pressure)
  /\ TypeOf(input.temperature) = "number" /\ TypeOf(input.age) = "number"
  /\ data_quality_issues = <<>> /\ processedCount = 1

\* C17: at most one request is in flight, and one is exactly while
\* fetchWithRetry awaits fetch; a request is issued only with none in
\* flight, and then either as a retry when the backoff sleep of the
\* settled attempt ends, or by the driver for page 1, or by the driver for
\* page n+1 once page n's response has been returned and all its records
\* are classified.
C17_OneRequestInFlight ==
  /\ [](inFlight \in {0, 1} /\ (inFlight = 1 <=> fpc = "await"))
  /\ [][inFlight' > inFlight =>
          /\ inFlight = 0 /\ inFlight' = 1
          /\ \/ fpc = "sleep" /\ res # NoRes /\ url' = url /\ attempt' = attempt + 1
             \/ pc = "prompt" /\ url' = 1 /\ attempt' = 1
             \/ /\ pc = "fetch" /\ fpc = "returned" /\ Ok(res.status)
                /\ url' = url + 1 /\ attempt' = 1
                /\ Len(reported') = url
                /\ fetched' = fetched \o res.body.data.items
                /\ processedCount' = Len(fetched')]_vars

\* A retry is in flight for page 2, after page 1 was processed.
C17_Witness ==
  inFlight = 1 /\ fpc = "await" /\ url = 2 /\ attempt = 2 /\ Len(reported) = 1

\* C18: the loop has no page limit of its own.  Every run ends with the
\* report, ends with an error, or is still asking for pages where the model
\* stops following it; the report is written exactly when a page reported
\* no next page; while every page processed reported a next page no report
\* is written and, unless a fetch or an envelope failed, the next page is
\* asked for, up to page MaxPages + 1.
C18_NoPageCap ==
  /\ <>(pc \in {"done", "aborted", "capped"})
  /\ [](payload # NoPayload <=> pc = "done")
  /\ [](pc = "done" <=> (Len(reported) >= 1 /\ ~reported[Len(reported)]))
  /\ []((\A i \in 1..Len(reported) : reported[i]) =>
          /\ payload = NoPayload
          /\ pc \in {"prompt", "fetch", "aborted", "capped"}
          /\ pc = "fetch" => url = Len(reported) + 1
          /\ pc = "capped" => (Len(reported) = MaxPages /\ page = MaxPages + 1
                                 /\ errors = <<>>)
          /\ pc = "aborted" => Len(errors) = 1)

\* Every page the model follows reported a next page: no report, no error,
\* and the run is about to ask for the page after.
C18_Witness ==
  /\ pc = "capped" /\ Len(reported) = MaxPages /\ page = MaxPages + 1
  /\ payload = NoPayload /\ errors = <<>>

\* The last page the model follows reported no next page: the report is
\* written.
C18_WitnessDone ==
  /\ pc = "done" /\ Len(reported) = MaxPages /\ payload # NoPayload

\* The numeric temperatures among the inputs.
NumericTemps == {t \in TempInputs : TypeOf(t) = "number"}

\* C19: for a numeric temperature, in hundredths of a degree, the patient
\* is appended to the fever list iff tempScore gives a score >= 1, and no
\* lower temperature scores more than a higher one.
C19_FeverAgreesWithScore ==
  (pc = "classified" /\ TypeOf(input.temperature) = "number") =>
    /\ (fever_patients = <<input.patient_id>>) <=> (result.temp.score >= 1)
    /\ \A t \in NumericTemps :
         t.v <= input.temperature.v => tempScore(t).score <= result.temp.score

\* C19, as far as the code keeps it: the two agree and the score does not
\* fall at temperatures given in tenths of a degree.
C19_AgreeInTenths ==
  (pc = "classified" /\ TypeOf(input.temperature) = "number"
     /\ input.temperature.v % 10 = 0) =>
    /\ (fever_patients = <<input.patient_id>>) <=> (result.temp.score >= 1)
    /\ \A t \in NumericTemps :
         (t.v % 10 = 0 /\ t.v <= input.temperature.v)
           => tempScore(t).score <= result.temp.score

\* C20: fetchWithRetry returns only a 2xx response, and every invocation
\* ends by returning or by throwing; so run() never takes its own
\* `!res.ok` branch (no "Patient API error" is ever written) and reads
\* records only out of the body of a 2xx response.
C20_ReturnsOnlyOk ==
  /\ [](fpc = "returned" => (res.kind = "response" /\ Ok(res.status)))
  /\ [](fpc = "thrown" => err # NoErr)
  /\ [](\A i \in 1..Len(errors) : errors[i].kind # "patientapi")
  /\ [][(fetched' # fetched \/ processedCount' # processedCount
           \/ Len(reported') # Len(reported))
          => (fpc = "returned" /\ Ok(res.status))]_vars
  /\ (fpc = "await") ~> (fpc \in {"returned", "thrown"})

\* A 2xx response returned on a retry has been handed to run().
C20_Witness ==
  /\ pc = "fetch" /\ fpc = "returned" /\ attempt >= 2
  /\ res.kind = "response" /\ Ok(res.status)

\* The budget spent on retryable statuses: the invocation has thrown.
C20_WitnessThrown ==
  /\ pc = "fetch" /\ fpc = "thrown" /\ attempt = DefaultRetries + 1
  /\ res.kind = "response" /\ res.status \in RetryableStatuses

====
